---- MODULE Spec2Model ----
(***************************************************************************)
(* Model of chrolispp_planner.py: the ProtocolStep codec (construction,    *)
(* from_csv_line, to_csv_line, __str__) and the CSVApp handlers (get_line, *)
(* decode_line, add_line, remove_last_line, validate_entry).               *)
(*                                                                         *)
(* Text is modelled as a sequence of one-character strings, so that        *)
(* formatting (f-strings, join) and parsing (strip, split, int) are        *)
(* computed rather than assumed.  A raised exception is modelled as the    *)
(* "kind" of a result record, named after the Python exception class.      *)
(***************************************************************************)
EXTENDS Integers, Sequences, FiniteSets, TLC

VARIABLES
    csv_lines,          \* CSVApp.csv_lines: the accepted CSV lines, in order
    output_text,        \* contents of the CSVApp.output_text widget
    validation_output,  \* contents of the CSVApp.validation_output widget
    dialog,             \* title of the message box the last handler showed
    op,                 \* the last operation that ran
    entry,              \* the entry fields and unit menus read by get_line
    input_text,         \* the text decoded by the last decode
    args,               \* the arguments of the last direct construction
    outcome             \* what the last operation returned or raised

vars == <<csv_lines, output_text, validation_output, dialog, op, entry,
          input_text, args, outcome>>

-----------------------------------------------------------------------------
(* Program constants *)

TimerResolution == 5
UsPerMs == 1000
UsPerS == 1000000
MaxLedIndex == 5
MaxBrightness == 1000
MilliPerUnit == 1000
LegacyFields == 5
CurrentFields == 6

(* Bounds of the model *)

MaxLines == 2

-----------------------------------------------------------------------------
(* Integer arithmetic as Python computes it *)

Abs(x) == IF x < 0 THEN -x ELSE x

\* int(a / b) for b # 0: the quotient truncated toward zero
TruncDiv(a, b) ==
    IF (a < 0) = (b < 0) THEN Abs(a) \div Abs(b) ELSE -(Abs(a) \div Abs(b))

\* math.floor(a / b) for b # 0: the quotient rounded toward minus infinity
FloorDiv(a, b) ==
    LET q == Abs(a) \div Abs(b)
    IN  IF (a < 0) = (b < 0) \/ a = 0 THEN q
        ELSE IF q * Abs(b) = Abs(a) THEN -q ELSE -q - 1

-----------------------------------------------------------------------------
(* Text: str(int), int(str), strip, split, join *)

DigitChars == <<"0", "1", "2", "3", "4", "5", "6", "7", "8", "9">>

Whitespace == {" ", "\n", "\t"}

IsDigit(c) == \E i \in 1..10 : DigitChars[i] = c

DigitValue(c) == (CHOOSE i \in 1..10 : DigitChars[i] = c) - 1

RECURSIVE NatToStr(_)
NatToStr(n) ==
    IF n < 10 THEN <<DigitChars[n + 1]>>
    ELSE NatToStr(n \div 10) \o <<DigitChars[(n % 10) + 1]>>

\* the text an f-string gives an int
IntToStr(n) == IF n < 0 THEN <<"-">> \o NatToStr(-n) ELSE NatToStr(n)

RECURSIVE Strip(_)
Strip(s) ==
    IF s = <<>> THEN s
    ELSE IF Head(s) \in Whitespace THEN Strip(Tail(s))
    ELSE IF s[Len(s)] \in Whitespace THEN Strip(SubSeq(s, 1, Len(s) - 1))
    ELSE s

RECURSIVE DigitsValue(_, _)
DigitsValue(s, acc) ==
    IF s = <<>> THEN acc
    ELSE DigitsValue(Tail(s), acc * 10 + DigitValue(Head(s)))

\* int(text): optional sign, then decimal digits; anything else is a ValueError
ParseInt(text) ==
    LET s == Strip(text)
        signed == s # <<>> /\ Head(s) \in {"-", "+"}
        digits == IF signed THEN Tail(s) ELSE s
        good == digits # <<>> /\ \A i \in 1..Len(digits) : IsDigit(digits[i])
    IN  IF ~good THEN [ok |-> FALSE, value |-> 0]
        ELSE [ok |-> TRUE,
              value |-> IF signed /\ Head(s) = "-"
                        THEN -DigitsValue(digits, 0)
                        ELSE DigitsValue(digits, 0)]

\* float(text), for the integer literals the model enters
ParseFloat(text) == ParseInt(text)

RECURSIVE SplitFrom(_, _, _)
SplitFrom(s, sep, cur) ==
    IF s = <<>> THEN <<cur>>
    ELSE IF Head(s) = sep THEN <<cur>> \o SplitFrom(Tail(s), sep, <<>>)
    ELSE SplitFrom(Tail(s), sep, Append(cur, Head(s)))

\* text.split(sep)
Split(s, sep) == SplitFrom(s, sep, <<>>)

RECURSIVE Join(_, _)
\* sep.join(parts)
Join(parts, sep) ==
    IF parts = <<>> THEN <<>>
    ELSE IF Len(parts) = 1 THEN parts[1]
    ELSE parts[1] \o <<sep>> \o Join(Tail(parts), sep)

-----------------------------------------------------------------------------
(* Results *)

NoStep == [led_index |-> -1, pulse_duration_us |-> -1,
           time_between_pulses_us |-> -1, n_pulses |-> -1,
           brightness_value |-> -1, us_mode |-> -1]

NoText == [kind |-> "none", led |-> 0, cycle_us |-> 0, total_us |-> 0,
           pulse_us |-> 0, gap_us |-> 0, n_pulses |-> 0, power |-> 0]

NoBack == [kind |-> "none", step |-> NoStep]

\* an exception of class `kind` propagating out of a call
Raised(kind) == [kind |-> kind, step |-> NoStep, warned |-> FALSE,
                 line |-> <<>>, text |-> NoText, back |-> NoBack]

-----------------------------------------------------------------------------
(* class ProtocolStep *)

is_valid_led_index(led_index) == led_index >= 0 /\ led_index <= MaxLedIndex

is_valid_pulse_duration(pulse_duration_us) ==
    pulse_duration_us % TimerResolution = 0

is_valid_time_between_pulses(time_between_pulses_us) ==
    time_between_pulses_us % TimerResolution = 0

is_valid_n_pulses(n_pulses) == n_pulses > 0

is_valid_brightness_value(brightness_value) ==
    brightness_value >= 0 /\ brightness_value <= MaxBrightness

\* n_pulses forced to 1 for every step
StoredPulsesAlwaysOne(n_pulses, brightness_value) == 1

\* n_pulses as __init__ stores it: 1 for a break
StoredPulses(n_pulses, brightness_value) ==
    IF brightness_value > 0 THEN n_pulses ELSE 1

\* the us_mode attribute __init__ computes
InitUsMode(pulse_duration_us, time_between_pulses_us) ==
    IF pulse_duration_us % UsPerMs = 0 /\ time_between_pulses_us % UsPerMs = 0
    THEN 0 ELSE 1

\* ProtocolStep(...): the validators run in this order, each raising
\* InvalidParameterError; the arguments the program passes are always ints
ProtocolStep(led_index, pulse_duration_us, time_between_pulses_us, n_pulses, brightness_value) ==
    IF ~is_valid_led_index(led_index) THEN Raised("InvalidParameterError")
    ELSE IF ~is_valid_pulse_duration(pulse_duration_us)
        THEN Raised("InvalidParameterError")
    ELSE IF ~is_valid_time_between_pulses(time_between_pulses_us)
        THEN Raised("InvalidParameterError")
    ELSE IF ~is_valid_n_pulses(n_pulses) THEN Raised("InvalidParameterError")
    ELSE IF ~is_valid_brightness_value(brightness_value)
        THEN Raised("InvalidParameterError")
    ELSE [kind |-> "ok",
          step |-> [led_index |-> led_index,
                    pulse_duration_us |-> pulse_duration_us,
                    time_between_pulses_us |-> time_between_pulses_us,
                    n_pulses |-> StoredPulses(n_pulses, brightness_value),
                    brightness_value |-> brightness_value,
                    us_mode |-> InitUsMode(pulse_duration_us,
                                           time_between_pulses_us)],
          warned |-> StoredPulses(n_pulses, brightness_value) # n_pulses,
          line |-> <<>>, text |-> NoText, back |-> NoBack]

\* the unit flag from_csv_line reads: 0 for a legacy line, else the sixth field
LineUsMode(entries, sixth) == IF Len(entries) = LegacyFields THEN 0 ELSE sixth

\* microseconds only for a flag of exactly 1
UnitFactorOnlyOne(us_mode) == IF us_mode = 1 THEN 1 ELSE UsPerMs

\* the factor from_csv_line applies to the two duration fields
UnitFactor(us_mode) == IF us_mode = 0 THEN UsPerMs ELSE 1

\* ProtocolStep.from_csv_line(csv_line)
from_csv_line(csv_line) ==
    LET entries == Split(Strip(csv_line), ",")
        n == Len(entries)
        f(i) == ParseInt(entries[i])
    IN  IF n \notin {LegacyFields, CurrentFields}
        THEN Raised("InvalidLineError")
        ELSE IF \E i \in 1..n : ~f(i).ok THEN Raised("ValueError")
        ELSE LET us_mode == LineUsMode(entries,
                               IF n = CurrentFields THEN f(6).value ELSE 0)
                 k == UnitFactor(us_mode)
             IN  ProtocolStep(f(1).value, f(2).value * k, f(3).value * k,
                              f(4).value, f(5).value)

\* the flag derived from the pulse duration alone
LineFlagPulseOnly(step) == IF step.pulse_duration_us % UsPerMs # 0 THEN 1 ELSE 0

\* the flag to_csv_line derives from the microsecond values
LineFlag(step) ==
    IF step.pulse_duration_us % UsPerMs # 0
       \/ step.time_between_pulses_us % UsPerMs # 0
    THEN 1 ELSE 0

\* a duration always emitted in whole milliseconds
EmittedTruncated(duration_us, us_mode) == duration_us \div UsPerMs

\* a duration as to_csv_line emits it under flag us_mode
Emitted(duration_us, us_mode) ==
    IF us_mode = 1 THEN duration_us ELSE duration_us \div UsPerMs

\* ProtocolStep.to_csv_line()
to_csv_line(step) ==
    LET us_mode == LineFlag(step)
    IN  Join(<<IntToStr(step.led_index),
               IntToStr(Emitted(step.pulse_duration_us, us_mode)),
               IntToStr(Emitted(step.time_between_pulses_us, us_mode)),
               IntToStr(step.n_pulses),
               IntToStr(step.brightness_value),
               IntToStr(us_mode)>>, ",")

\* pulse_duration_us + time_between_pulses_us (get_frequency, get_total_duration)
CycleOf(step) == step.pulse_duration_us + step.time_between_pulses_us

\* ProtocolStep.__str__(): the quantities the text is formatted from.
\* get_frequency divides by the cycle, so a zero cycle raises.
str(step) ==
    IF step.brightness_value = 0
    THEN [kind |-> "ok",
          text |-> [NoText EXCEPT !.kind = "break",
                                  !.gap_us = step.time_between_pulses_us]]
    ELSE IF CycleOf(step) = 0 THEN [kind |-> "ZeroDivisionError", text |-> NoText]
    ELSE [kind |-> "ok",
          text |-> [kind |-> "pulse", led |-> step.led_index + 1,
                    cycle_us |-> CycleOf(step),
                    total_us |-> step.n_pulses * CycleOf(step),
                    pulse_us |-> step.pulse_duration_us,
                    gap_us |-> step.time_between_pulses_us,
                    n_pulses |-> step.n_pulses,
                    power |-> step.brightness_value]]

-----------------------------------------------------------------------------
(* class CSVApp: unit conversion *)

\* convert_to_us(value, unit); the unit menus offer only these three
convert_to_us(value, unit) ==
    CASE unit = "us" -> value
      [] unit = "ms" -> value * UsPerMs
      [] unit = "s" -> value * UsPerS

\* convert_to_hz(value, unit), as the fraction num / den of a hertz
convert_to_hz(value, unit) ==
    CASE unit = "mHz" -> [num |-> value, den |-> MilliPerUnit]
      [] unit = "Hz" -> [num |-> value, den |-> 1]

\* int(1_000_000.0 / freq_hz) for freq_hz # 0
CycleDuration(freq_hz) == TruncDiv(UsPerS * freq_hz.den, freq_hz.num)

\* time_between_pulses_us -= time_between_pulses_us % 5
RoundDownToTimer(us) == us - (us % TimerResolution)

-----------------------------------------------------------------------------
(* class CSVApp: encode and decode *)

\* a break encoded like a pulse: the entered pulse kept, the gap what is left
NoRepetitionKeepsPulse(led_index, total_duration_us, pulse_duration_us, power) ==
    IF total_duration_us - pulse_duration_us < 0
    THEN Raised("InvalidParameterError")
    ELSE ProtocolStep(led_index, pulse_duration_us,
             total_duration_us - pulse_duration_us, 1, power)

\* get_line's branch for no frequency given: a single pulse, or a break
NoRepetition(led_index, total_duration_us, pulse_duration_us, power) ==
    IF power = 0
    THEN ProtocolStep(led_index, 0, total_duration_us, 1, power)
    ELSE IF total_duration_us - pulse_duration_us < 0
    THEN Raised("InvalidParameterError")
    ELSE ProtocolStep(led_index, pulse_duration_us,
             total_duration_us - pulse_duration_us, 1, power)

\* the step get_line builds once the entries are parsed and converted
Derive(led_index, has_freq, freq_hz, total_duration_us, pulse_duration_us, power) ==
    IF has_freq
    THEN IF freq_hz.num = 0 THEN Raised("ZeroDivisionError")
         ELSE LET cycle_duration_us == CycleDuration(freq_hz)
                  time_between_pulses_us ==
                      RoundDownToTimer(cycle_duration_us - pulse_duration_us)
              IN  IF time_between_pulses_us < 0
                  THEN Raised("InvalidParameterError")
                  ELSE IF cycle_duration_us = 0
                  THEN Raised("ZeroDivisionError")
                  ELSE IF FloorDiv(total_duration_us, cycle_duration_us) <= 0
                  THEN Raised("InvalidParameterError")
                  ELSE ProtocolStep(led_index, pulse_duration_us,
                           time_between_pulses_us,
                           FloorDiv(total_duration_us, cycle_duration_us),
                           power)
    ELSE NoRepetition(led_index, total_duration_us, pulse_duration_us, power)

\* CSVApp.get_line(): reads the entries e, returns the CSV line of the step
get_line(e) ==
    LET led == ParseInt(e.led)
        has_freq == e.freq # <<>>
        freq == IF has_freq THEN ParseFloat(e.freq) ELSE [ok |-> TRUE, value |-> 0]
        total == ParseFloat(e.total)
        pulse == ParseFloat(e.pulse)
        power == ParseInt(e.power)
    IN  IF ~(led.ok /\ freq.ok /\ total.ok /\ pulse.ok /\ power.ok)
        THEN Raised("ValueError")
        ELSE LET r == Derive(led.value - 1, has_freq,
                          convert_to_hz(freq.value, e.freq_unit),
                          convert_to_us(total.value, e.total_unit),
                          convert_to_us(pulse.value, e.pulse_unit),
                          power.value)
             IN  IF r.kind = "ok"
                 THEN [r EXCEPT !.line = to_csv_line(r.step)]
                 ELSE r

\* CSVApp.decode_line(line): str(ProtocolStep.from_csv_line(line))
decode_line(line) ==
    LET r == from_csv_line(line)
    IN  IF r.kind # "ok" THEN r
        ELSE LET t == str(r.step)
             IN  IF t.kind = "ok" THEN [r EXCEPT !.text = t.text]
                 ELSE Raised(t.kind)

-----------------------------------------------------------------------------
(* Inputs *)

Tok(n) == IntToStr(n)

NoEntry == [led |-> <<>>, freq |-> <<>>, freq_unit |-> "Hz", total |-> <<>>,
            total_unit |-> "s", pulse |-> <<>>, pulse_unit |-> "ms",
            power |-> <<>>]

NoArgs == <<0, 0, 0, 0, 0>>

TimeUnits == {"us", "ms", "s"}

FreqUnits == {"mHz", "Hz"}

LedTexts == {Tok(1), Tok(6), Tok(7), <<"x">>}

FreqTexts ==
    {<<>>, Tok(0), Tok(10), Tok(3), Tok(2000000), Tok(-10), Tok(-190000000)}

TotalTexts == {Tok(2), Tok(250), Tok(7), Tok(0), Tok(-300)}

PulseTexts == {Tok(0), Tok(50), Tok(3), Tok(-5), Tok(1234)}

PowerTexts == {Tok(0), Tok(500), Tok(1001), Tok(-1)}

\* what the user may have typed and selected when get_line runs
Entries ==
    [led : LedTexts, freq : FreqTexts, freq_unit : FreqUnits,
     total : TotalTexts, total_unit : TimeUnits,
     pulse : PulseTexts, pulse_unit : TimeUnits, power : PowerTexts]

\* CSV lines of five integer fields, with a sixth field or without
FieldLines ==
    { Join(<<Tok(l), Tok(p), Tok(g), Tok(n), Tok(b)>> \o six, ",") :
        l \in {-1, 0, 5, 6}, p \in {-5, 0, 3, 5, 1000, 1234},
        g \in {-5, 0, 3, 995, 5000}, n \in {0, 1, 10}, b \in {-1, 0, 500, 1001},
        six \in {<<>>, <<Tok(0)>>, <<Tok(1)>>, <<Tok(2)>>, <<Tok(-1)>>} }

\* lines that are not five or six integers
BadLines ==
    { Join(<<Tok(0), Tok(5), Tok(3), Tok(10)>>, ","),
      Join(<<Tok(0), Tok(5), Tok(3), Tok(10), Tok(500), Tok(0), Tok(0)>>, ","),
      Join(<<Tok(0), <<"x">>, Tok(3), Tok(10), Tok(500)>>, ","),
      Join(<<Tok(0), Tok(5), Tok(3), Tok(10), Tok(500), <<>>>>, ","),
      <<" ">> \o Join(<<Tok(0), Tok(5), Tok(3), Tok(10), Tok(500)>>, ",")
          \o <<" ">>,
      <<>> }

Lines == FieldLines \cup BadLines

\* arguments of a direct construction
ArgTuples ==
    {-1, 0, 5, 6} \X {-5, 0, 3, 5, 1000, 1234} \X {-5, 0, 3, 5, 995, 5000}
        \X {-1, 0, 1, 2, 20} \X {-1, 0, 1, 1000, 1001}

\* the entries tried in a session: a pulse train, a break, a total that is
\* no number, a total shorter than one cycle, and a frequency of zero
SessionEntries ==
    { [NoEntry EXCEPT !.led = Tok(1), !.freq = Tok(10), !.total = Tok(2),
                      !.pulse = Tok(50), !.power = Tok(500)],
      [NoEntry EXCEPT !.led = Tok(1), !.total = Tok(2), !.pulse = Tok(50),
                      !.power = Tok(0)],
      [NoEntry EXCEPT !.led = Tok(1), !.freq = Tok(10), !.total = <<"x">>,
                      !.pulse = Tok(50), !.power = Tok(500)],
      [NoEntry EXCEPT !.led = Tok(1), !.freq = Tok(10), !.total = Tok(0),
                      !.pulse = Tok(50), !.power = Tok(500)],
      [NoEntry EXCEPT !.led = Tok(1), !.freq = Tok(0), !.total = Tok(2),
                      !.pulse = Tok(50), !.power = Tok(500)] }

PulseLine == Join(<<Tok(0), Tok(50), Tok(50), Tok(20), Tok(500), Tok(0)>>, ",")

BreakLine == Join(<<Tok(0), Tok(0), Tok(1500), Tok(1), Tok(0)>>, ",")

ShortLine == Join(<<Tok(0), Tok(5)>>, ",")

\* the texts pasted into the validation box in a session
SessionTexts ==
    { PulseLine,
      Join(<<PulseLine, <<>>, BreakLine>>, "\n") \o <<"\n">>,
      Join(<<BreakLine, ShortLine>>, "\n"),
      <<>> }

-----------------------------------------------------------------------------
(* class CSVApp: the handlers *)

Returned == Raised("ok")

\* the line appended before get_line's result is known to be good
AcceptedAlways(lines, r) == Append(lines, r.line)

\* csv_lines after add_line's try block ran with get_line's result r
Accepted(lines, r) == IF r.kind = "ok" THEN Append(lines, r.line) ELSE lines

\* the message box add_line's except clauses show for result r
AddDialog(r) ==
    CASE r.kind = "ValueError" -> "Invalid input"
      [] r.kind = "InvalidParameterError" -> "Invalid parameter"
      [] OTHER -> ""

\* csv_lines after remove_last_line
Popped(lines) ==
    IF lines # <<>> THEN SubSeq(lines, 1, Len(lines) - 1) ELSE lines

RECURSIVE DecodeFrom(_, _, _)
\* validate_entry's loop from line i on: the decoded lines, or the first raise
DecodeFrom(lines, i, done) ==
    IF i > Len(lines) THEN [kind |-> "ok", out |-> done]
    ELSE IF Len(lines[i]) = 0 THEN DecodeFrom(lines, i + 1, done)
    ELSE LET r == decode_line(lines[i])
         IN  IF r.kind # "ok" THEN [kind |-> r.kind, out |-> <<>>]
             ELSE DecodeFrom(lines, i + 1,
                      Append(done, [step_no |-> i, text |-> r.text]))

Init ==
    /\ csv_lines = <<>>
    /\ output_text = <<>>
    /\ validation_output = <<>>
    /\ dialog = ""
    /\ op = "init"
    /\ entry = NoEntry
    /\ input_text = <<>>
    /\ args = NoArgs
    /\ outcome = Returned

\* CSVApp.add_line with the entries holding e
add_line(e) ==
    LET r == get_line(e)
    IN  /\ Len(csv_lines) < MaxLines
        /\ csv_lines' = Accepted(csv_lines, r)
        /\ output_text' = IF r.kind = "ok"
                          THEN Join(Accepted(csv_lines, r), "\n")
                          ELSE output_text
        /\ dialog' = AddDialog(r)
        /\ op' = "add_line"
        /\ entry' = e
        /\ outcome' = r
        /\ UNCHANGED <<validation_output, input_text, args>>

\* CSVApp.remove_last_line
remove_last_line ==
    /\ csv_lines' = Popped(csv_lines)
    /\ output_text' = IF csv_lines # <<>>
                      THEN Join(Popped(csv_lines), "\n")
                      ELSE output_text
    /\ dialog' = IF csv_lines # <<>> THEN "" ELSE "No lines"
    /\ op' = "remove_last_line"
    /\ outcome' = Returned
    /\ UNCHANGED <<validation_output, entry, input_text, args>>

\* CSVApp.validate_entry with the input box holding text
validate_entry(text) ==
    LET r == DecodeFrom(Split(Strip(text), "\n"), 1, <<>>)
    IN  /\ validation_output' = IF r.kind = "ok" THEN r.out
                                ELSE validation_output
        /\ dialog' = ""
        /\ op' = "validate_entry"
        /\ input_text' = text
        /\ outcome' = Raised(r.kind)
        /\ UNCHANGED <<csv_lines, output_text, entry, args>>

Next ==
    \/ \E e \in SessionEntries : add_line(e)
    \/ remove_last_line
    \/ \E text \in SessionTexts : validate_entry(text)

Spec == Init /\ [][Next]_vars

-----------------------------------------------------------------------------
(* The codec as pure functions: one call on each input *)

\* one call of get_line, and the decode of the line it returned
EncodeDecode ==
    /\ op = "init"
    /\ \E e \in Entries :
        LET r == get_line(e)
        IN  /\ op' = "get_line"
            /\ entry' = e
            /\ outcome' =
                IF r.kind # "ok" THEN r
                ELSE LET b == from_csv_line(r.line)
                     IN  [r EXCEPT !.text = decode_line(r.line).text,
                                   !.back = [kind |-> b.kind, step |-> b.step]]
    /\ UNCHANGED <<csv_lines, output_text, validation_output, dialog,
                   input_text, args>>

\* one call of decode_line
DecodeLine ==
    /\ op = "init"
    /\ \E line \in Lines :
        /\ op' = "decode_line"
        /\ input_text' = line
        /\ outcome' = decode_line(line)
    /\ UNCHANGED <<csv_lines, output_text, validation_output, dialog,
                   entry, args>>

\* s = ProtocolStep(...), then ProtocolStep.from_csv_line(s.to_csv_line())
Construct ==
    /\ op = "init"
    /\ \E a \in ArgTuples :
        LET r == ProtocolStep(a[1], a[2], a[3], a[4], a[5])
        IN  /\ op' = "ProtocolStep"
            /\ args' = a
            /\ outcome' =
                IF r.kind # "ok" THEN r
                ELSE LET b == from_csv_line(to_csv_line(r.step))
                     IN  [r EXCEPT !.line = to_csv_line(r.step),
                                   !.back = [kind |-> b.kind, step |-> b.step]]
    /\ UNCHANGED <<csv_lines, output_text, validation_output, dialog,
                   entry, input_text>>

\* ProtocolStep.from_csv_line(line).to_csv_line()
Reserialize ==
    /\ op = "init"
    /\ \E line \in Lines :
        LET r == from_csv_line(line)
        IN  /\ op' = "to_csv_line"
            /\ input_text' = line
            /\ outcome' = IF r.kind # "ok" THEN r
                          ELSE [r EXCEPT !.line = to_csv_line(r.step)]
    /\ UNCHANGED <<csv_lines, output_text, validation_output, dialog,
                   entry, args>>

NextCodec == EncodeDecode \/ DecodeLine \/ Construct \/ Reserialize

SpecCodec == Init /\ [][NextCodec]_vars

-----------------------------------------------------------------------------
(* What the last call was given *)

EnteredOk ==
    /\ ParseInt(entry.led).ok
    /\ entry.freq = <<>> \/ ParseFloat(entry.freq).ok
    /\ ParseFloat(entry.total).ok
    /\ ParseFloat(entry.pulse).ok
    /\ ParseInt(entry.power).ok

HasFreq == entry.freq # <<>>

EnteredLed == ParseInt(entry.led).value

EnteredFreq == convert_to_hz(ParseFloat(entry.freq).value, entry.freq_unit)

EnteredTotalUs == convert_to_us(ParseFloat(entry.total).value, entry.total_unit)

EnteredPulseUs == convert_to_us(ParseFloat(entry.pulse).value, entry.pulse_unit)

EnteredPower == ParseInt(entry.power).value

\* floor(1,000,000 / frequency_hz)
FloorCycle == FloorDiv(UsPerS * EnteredFreq.den, EnteredFreq.num)

\* the cycle get_line derives from the entered frequency
EnteredCycle == CycleDuration(EnteredFreq)

LineFields == Split(Strip(input_text), ",")

FieldValue(i) == ParseInt(LineFields[i]).value

OutFields == Split(outcome.line, ",")

OutValue(i) == ParseInt(OutFields[i]).value

\* the field constraints of the data model
WellFormed(s) ==
    /\ s.led_index \in 0..MaxLedIndex
    /\ s.pulse_duration_us % TimerResolution = 0 /\ s.pulse_duration_us >= 0
    /\ s.time_between_pulses_us % TimerResolution = 0
    /\ s.time_between_pulses_us >= 0
    /\ s.n_pulses > 0
    /\ s.brightness_value \in 0..MaxBrightness

Classified == {"ok", "ValueError", "InvalidParameterError", "InvalidLineError"}

-----------------------------------------------------------------------------
(* Claims *)

\* C1: get_line with a frequency entered gives either a step with the entered
\* pulse, gap = (cycle - pulse) rounded down to a multiple of 5 and
\* n_pulses = floor(total / cycle), where cycle = floor(1,000,000 / frequency),
\* or an invalid-parameter failure; it fails whenever gap < 0 or n_pulses <= 0.
C1_EncodeWithFrequency ==
    (op = "get_line" /\ EnteredOk /\ HasFreq) =>
        /\ outcome.kind \in {"ok", "InvalidParameterError"}
        /\ LET gap == RoundDownToTimer(FloorCycle - EnteredPulseUs)
           IN  /\ outcome.kind = "ok" =>
                    /\ outcome.step.pulse_duration_us = EnteredPulseUs
                    /\ outcome.step.time_between_pulses_us = gap
                    /\ outcome.step.n_pulses =
                           FloorDiv(EnteredTotalUs, FloorCycle)
               /\ (gap < 0 \/ (FloorCycle # 0
                               /\ FloorDiv(EnteredTotalUs, FloorCycle) <= 0))
                      => outcome.kind = "InvalidParameterError"

\* C2 as claimed: every accepted encode request with brightness 0 and total
\* duration T, whatever the frequency, gives a line with pulse 0 and n_pulses 1
\* that decodes to a break of duration exactly T.
C2_BreakAnyFrequency ==
    (op = "get_line" /\ outcome.kind = "ok" /\ EnteredPower = 0) =>
        /\ outcome.step.pulse_duration_us = 0
        /\ outcome.step.n_pulses = 1
        /\ outcome.text.kind = "break"
        /\ outcome.text.gap_us = EnteredTotalUs

\* C2 as amended: with no frequency entered and brightness 0, get_line
\* succeeds exactly when the LED is 1..6 and T is a multiple of 5 (else it
\* fails with invalid-parameter); when it succeeds the line has pulse 0 and
\* n_pulses 1 and decodes to a break of duration exactly T.
C2_BreakWithoutFrequency ==
    (op = "get_line" /\ EnteredOk /\ ~HasFreq /\ EnteredPower = 0) =>
        /\ outcome.kind = "ok" <=>
               (EnteredLed \in 1..(MaxLedIndex + 1)
                /\ EnteredTotalUs % TimerResolution = 0)
        /\ outcome.kind # "ok" => outcome.kind = "InvalidParameterError"
        /\ outcome.kind = "ok" =>
               /\ OutValue(2) = 0
               /\ OutValue(4) = 1
               /\ outcome.back.kind = "ok"
               /\ outcome.text.kind = "break"
               /\ outcome.text.gap_us = EnteredTotalUs

C2_Witness ==
    /\ op = "get_line" /\ ~HasFreq /\ outcome.kind = "ok"
    /\ EnteredPower = 0 /\ EnteredPulseUs # 0 /\ EnteredTotalUs > 0
    /\ outcome.text.kind = "break"

\* C3 as claimed: for a successful encode with a frequency, brightness > 0 and
\* pulse and gap multiples of 5, the decoded cycle is floor(1,000,000 /
\* frequency) and the decoded total duration is the entered total duration.
C3_DecodeReproducesTotal ==
    (/\ op = "get_line" /\ outcome.kind = "ok" /\ HasFreq /\ EnteredPower > 0
     /\ EnteredPulseUs % TimerResolution = 0
     /\ (EnteredCycle - EnteredPulseUs) % TimerResolution = 0) =>
        /\ outcome.text.kind = "pulse"
        /\ outcome.text.cycle_us = FloorCycle
        /\ outcome.text.total_us = EnteredTotalUs

\* C3 as amended: for such an encode the decoded cycle is 1,000,000 /
\* frequency truncated toward zero, and the decoded total duration is that
\* cycle times floor(total / cycle): for a positive cycle the largest multiple
\* of the cycle not above the entered total.
C3_DecodeReproducesCycle ==
    (/\ op = "get_line" /\ outcome.kind = "ok" /\ HasFreq /\ EnteredPower > 0
     /\ EnteredPulseUs % TimerResolution = 0
     /\ (EnteredCycle - EnteredPulseUs) % TimerResolution = 0) =>
        /\ outcome.text.kind = "pulse"
        /\ outcome.text.cycle_us = EnteredCycle
        /\ outcome.text.total_us =
               EnteredCycle * FloorDiv(EnteredTotalUs, EnteredCycle)
        /\ EnteredCycle > 0 =>
               /\ outcome.text.total_us <= EnteredTotalUs
               /\ EnteredTotalUs - EnteredCycle < outcome.text.total_us

C3_Witness ==
    /\ op = "get_line" /\ outcome.kind = "ok" /\ HasFreq /\ EnteredPower > 0
    /\ EnteredPulseUs % TimerResolution = 0 /\ EnteredPulseUs > 0
    /\ (EnteredCycle - EnteredPulseUs) % TimerResolution = 0
    /\ outcome.text.kind = "pulse" /\ outcome.text.n_pulses > 1
    /\ outcome.text.total_us < EnteredTotalUs

\* C4: every ProtocolStep that exists, on the encode path, the decode path or
\* built directly, has led_index in 0..5, pulse and gap multiples of 5 and
\* >= 0, n_pulses > 0 and brightness in 0..1000.
C4_StepWellFormed ==
    (op \in {"get_line", "decode_line", "ProtocolStep", "to_csv_line"}
     /\ outcome.kind = "ok") => WellFormed(outcome.step)

\* C5 as claimed: a decoded line's durations are microseconds if its sixth
\* field is 1, and milliseconds if the field is absent or any other integer.
C5_MicrosecondsOnlyForOne ==
    (op \in {"decode_line", "to_csv_line"} /\ outcome.kind = "ok") =>
        LET k == IF Len(LineFields) = CurrentFields /\ FieldValue(6) = 1
                 THEN 1 ELSE UsPerMs
        IN  /\ outcome.step.pulse_duration_us = FieldValue(2) * k
            /\ outcome.step.time_between_pulses_us = FieldValue(3) * k

\* C5 as amended: a decoded line's durations are milliseconds if its sixth
\* field is absent or 0, and microseconds for every other integer there; a
\* 5-field line decodes to what the same line with ",0" appended decodes to.
C5_MillisecondsIffAbsentOrZero ==
    (op \in {"decode_line", "to_csv_line"}) =>
        /\ outcome.kind = "ok" =>
            LET k == IF Len(LineFields) = LegacyFields \/ FieldValue(6) = 0
                     THEN UsPerMs ELSE 1
            IN  /\ outcome.step.pulse_duration_us = FieldValue(2) * k
                /\ outcome.step.time_between_pulses_us = FieldValue(3) * k
        /\ (op = "to_csv_line" /\ Len(LineFields) = LegacyFields) =>
            LET r == from_csv_line(input_text \o <<",", "0">>)
            IN  r.kind = outcome.kind /\ r.step = outcome.step

C5_Witness ==
    /\ op = "to_csv_line" /\ outcome.kind = "ok"
    /\ Len(LineFields) = CurrentFields /\ FieldValue(6) = 2
    /\ FieldValue(2) # 0
    /\ outcome.step.pulse_duration_us = FieldValue(2)

\* C6: to_csv_line emits flag 1 and the raw microsecond values iff a duration
\* is not a multiple of 1000, else flag 0 and both values divided by 1000; the
\* flag equals the us_mode attribute, whatever flag the parsed line carried.
C6_UsModeDerived ==
    (op \in {"get_line", "ProtocolStep", "to_csv_line"}
     /\ outcome.kind = "ok") =>
        LET s == outcome.step
        IN  /\ Len(OutFields) = CurrentFields
            /\ OutValue(6) \in {0, 1}
            /\ OutValue(6) = 1 <=>
                   (s.pulse_duration_us % UsPerMs # 0
                    \/ s.time_between_pulses_us % UsPerMs # 0)
            /\ OutValue(6) = 1 =>
                   /\ OutValue(2) = s.pulse_duration_us
                   /\ OutValue(3) = s.time_between_pulses_us
            /\ OutValue(6) = 0 =>
                   /\ OutValue(2) = s.pulse_duration_us \div UsPerMs
                   /\ OutValue(3) = s.time_between_pulses_us \div UsPerMs
            /\ OutValue(6) = s.us_mode

C6_Witness ==
    /\ op = "to_csv_line" /\ outcome.kind = "ok"
    /\ Len(LineFields) = CurrentFields /\ FieldValue(6) = 1
    /\ outcome.step.pulse_duration_us > 0
    /\ OutValue(6) = 0

\* C7: a failed add_line leaves csv_lines as it was, a successful one appends
\* exactly the newly encoded line, remove_last_line removes exactly the last
\* line (or leaves an empty list empty), validate_entry never changes it.
C7_LinesFrame ==
    [][/\ (op' = "add_line" /\ outcome'.kind # "ok") => csv_lines' = csv_lines
       /\ (op' = "add_line" /\ outcome'.kind = "ok") =>
              /\ outcome'.line = get_line(entry').line
              /\ csv_lines' = csv_lines \o <<outcome'.line>>
       /\ op' = "remove_last_line" =>
              /\ csv_lines = <<>> => csv_lines' = <<>>
              /\ csv_lines # <<>> =>
                     csv_lines = csv_lines' \o <<csv_lines[Len(csv_lines)]>>
       /\ op' = "validate_entry" => csv_lines' = csv_lines]_vars

C7_Witness ==
    /\ op = "add_line" /\ outcome.kind \notin Classified
    /\ Len(csv_lines) > 0

\* C8: a ProtocolStep with brightness 0 and otherwise valid fields is built
\* for every integer n_pulses; it has n_pulses = 1, and a warning is emitted
\* exactly when the n_pulses supplied differs from 1.
C8_BreakPulsesCorrected ==
    (/\ op = "ProtocolStep" /\ args[5] = 0
     /\ args[1] \in 0..MaxLedIndex
     /\ args[2] % TimerResolution = 0 /\ args[2] >= 0
     /\ args[3] % TimerResolution = 0 /\ args[3] >= 0) =>
        /\ outcome.kind = "ok"
        /\ outcome.step.n_pulses = 1
        /\ outcome.warned <=> args[4] # 1

\* C9: every get_line call and every decode_line call returns or fails with
\* numeric-parse, invalid-parameter or invalid-line; none divides by zero.
C9_ErrorsClassified ==
    (op \in {"get_line", "decode_line"}) => outcome.kind \in Classified

\* C10: for every ProtocolStep s built, from_csv_line(s.to_csv_line())
\* succeeds and gives a step with the same six attributes.
C10_RoundTrip ==
    (op \in {"ProtocolStep", "get_line"} /\ outcome.kind = "ok") =>
        /\ outcome.back.kind = "ok"
        /\ outcome.back.step = outcome.step

C10_Witness ==
    /\ op = "ProtocolStep" /\ outcome.kind = "ok"
    /\ outcome.step.us_mode = 0
    /\ outcome.step.pulse_duration_us > 0
    /\ outcome.step.time_between_pulses_us > 0
    /\ outcome.back.step = outcome.step

====
